---- MODULE Spec2Model ----
(***************************************************************************)
(* Model of azuredevops2terraform:                                         *)
(*   - extract_azure_devops_api_data.py : the paginated extractor          *)
(*   - terraform_azure_devops_{project,repos,variablegroups}.py : the      *)
(*     three Terraform block generators                                    *)
(*                                                                         *)
(* Strings are sequences of one-character strings, so that lower(), the    *)
(* regular-expression substitution, strip() and concatenation are          *)
(* computed and not assumed.  JSON values are tagged records               *)
(*   [t |-> "str" | "num" | "bool" | "null" | "arr" | "obj", s, a, o]      *)
(* with an object's o the sequence of its <<key, value>> entries in        *)
(* insertion order (a Python dict iterates in insertion order).            *)
(***************************************************************************)
EXTENDS Integers, Sequences, FiniteSets, TLC

VARIABLES
    \* ---- extractor (extract_azure_devops_api_data.py)
    pc,                 \* position of the extractor process
    azure_devops_ext_pat, \* os.getenv("AZURE_DEVOPS_EXT_PAT")
    url,                \* args.url
    output_filename,    \* args.output_filename
    all_data,           \* the aggregated list
    continuation_token, \* token read from the last response
    requests,           \* every request_url handed to requests.get, in order
    pages,              \* every successfully decoded response: [body, headers]
    exc,                \* the exception in flight / caught by __main__
    out_file,           \* what open(output_filename,'w') + json.dump left
    stdout,             \* what was printed to standard output
    stderr,             \* what was printed to standard error
    exit_status,        \* the status the process ends with
    \* ---- ResponseNormalizer applied to one page
    n_page, n_items, n_done,
    \* ---- identifier sanitization applied to one name
    s_name, s_fallback, s_once, s_twice, s_stage,
    \* ---- generators (terraform_azure_devops_*.py)
    g_pc, g_kind, g_input, g_args, g_result, g_files, g_stdout, g_exit

vars == << pc, azure_devops_ext_pat, url, output_filename, all_data,
           continuation_token, requests, pages, exc, out_file, stdout, stderr,
           exit_status,
           n_page, n_items, n_done,
           s_name, s_fallback, s_once, s_twice, s_stage,
           g_pc, g_kind, g_input, g_args, g_result, g_files, g_stdout, g_exit >>

extractorVars == << pc, azure_devops_ext_pat, url, output_filename, all_data,
                    continuation_token, requests, pages, exc, out_file, stdout,
                    stderr, exit_status >>
normVars == << n_page, n_items, n_done >>
sanVars == << s_name, s_fallback, s_once, s_twice, s_stage >>
genVars == << g_pc, g_kind, g_input, g_args, g_result, g_files, g_stdout, g_exit >>

(***************************************************************************)
(* Bounds of the model.                                                    *)
(***************************************************************************)
\* most requests one run of the extractor issues
MaxPages == 3
\* longest name handed to the sanitizer
MaxLen == 3
\* most entries of a generated page object
MaxEntries == 2

(***************************************************************************)
(* Python values.                                                          *)
(***************************************************************************)
\* Optional string: None, or a string (possibly empty)
None == [some |-> FALSE, v |-> <<>>]
Some(s) == [some |-> TRUE, v |-> s]
\* truthiness of an optional string: `if x:` / `if not x:`
TruthyOpt(o) == o.some /\ o.v # <<>>

\* JSON values: s holds a scalar's characters, a an array's elements, o an
\* object's entries
JStr(s) == [t |-> "str", s |-> s, a |-> << >>, o |-> << >>]
JNum(s) == [t |-> "num", s |-> s, a |-> << >>, o |-> << >>]
JNull == [t |-> "null", s |-> << >>, a |-> << >>, o |-> << >>]
JBool(b) == [t |-> "bool",
             s |-> IF b THEN << "t", "r", "u", "e" >> ELSE << "f", "a", "l", "s", "e" >>,
             a |-> << >>, o |-> << >>]
JArr(elems) == [t |-> "arr", s |-> << >>, a |-> elems, o |-> << >>]
JObj(entries) == [t |-> "obj", s |-> << >>, a |-> << >>, o |-> entries]

\* isinstance(x, dict) / isinstance(x, list) / isinstance(x, str)
IsDict(x) == x.t = "obj"
IsList(x) == x.t = "arr"
IsStr(x) == x.t = "str"
\* truthiness of a decoded JSON value (None, "", 0, False, [] and {} are falsy)
Truthy(x) ==
    CASE x.t = "null" -> FALSE
      [] x.t = "str" -> x.s # << >>
      [] x.t = "num" -> x.s # << "0" >>
      [] x.t = "bool" -> x.s = << "t", "r", "u", "e" >>
      [] x.t = "arr" -> Len(x.a) > 0
      [] x.t = "obj" -> Len(x.o) > 0
\* str(x) of a decoded JSON scalar, as an f-string formats it
PyStr(x) ==
    CASE x.t = "null" -> << "N", "o", "n", "e" >>
      [] x.t = "bool" -> IF Truthy(x) THEN << "T", "r", "u", "e" >>
                                      ELSE << "F", "a", "l", "s", "e" >>
      [] OTHER -> x.s
\* all([...]) of the required-field checks (project 50, repos 46,
\* variablegroups 43); AnyOf is any([...])
AnyOf(values) == \E i \in 1..Len(values) : Truthy(values[i])
All(values) == \A i \in 1..Len(values) : Truthy(values[i])
\* key in d
HasKey(d, k) == \E i \in 1..Len(d.o) : d.o[i][1] = k
\* d[k]
Lookup(d, k) == d.o[CHOOSE i \in 1..Len(d.o) : d.o[i][1] = k][2]
\* d.get(k, default)
Get(d, k, default) == IF HasKey(d, k) THEN Lookup(d, k) ELSE default

\* list.extend(items)
ExtendPrepending(list, items) == items \o list
Extend(list, items) == list \o items

(***************************************************************************)
(* ResponseNormalizer: lines 55-75 of extract_azure_devops_api_data.py.    *)
(***************************************************************************)
\* for key, value in page_data.items(): if isinstance(value, list): ... break
HasListEntry(d) == \E i \in 1..Len(d.o) : IsList(d.o[i][2])
FirstListEntry(d) ==
    LET i == CHOOSE j \in 1..Len(d.o) :
                 /\ IsList(d.o[j][2])
                 /\ \A k \in 1..(j - 1) : ~IsList(d.o[k][2])
    IN d.o[i][2]

\* a normalizer that forgets rule 1 (scans entries without looking at "value")
NormalizeNoValueRule(page_data) ==
    IF IsList(page_data) THEN page_data.a
    ELSE IF IsDict(page_data) /\ HasListEntry(page_data)
         THEN FirstListEntry(page_data).a
         ELSE << page_data >>

\* the items one page contributes to all_data
Normalize(page_data) ==
    IF IsDict(page_data) /\ HasKey(page_data, "value")
                        /\ IsList(Lookup(page_data, "value"))
    THEN Lookup(page_data, "value").a
    ELSE IF IsList(page_data)
    THEN page_data.a
    ELSE IF IsDict(page_data)
    THEN IF HasListEntry(page_data)
         THEN FirstListEntry(page_data).a
         ELSE << page_data >>
    ELSE << page_data >>

(***************************************************************************)
(* The extractor: extract_azure_devops_api_data(url, output_filename) and  *)
(* the __main__ block that calls it.                                       *)
(***************************************************************************)
\* values of the environment variable: unset, empty, set
PatValues == { None, Some(<< >>), Some(<< "p", "a", "t" >>) }
\* base URLs: without and with a query string
BaseUrls == { << "h", "/", "a" >>, << "h", "/", "a", "?", "v", "=", "7" >> }
\* output_filename: omitted, or a file name
OutNames == { None, Some(<< "o", ".", "j" >>) }

ItemA == JStr(<< "A" >>)
ItemB == JStr(<< "B" >>)
ItemC == JStr(<< "C" >>)

\* bodies the server answers with
FetchBodies ==
    { JObj(<< << "value", JArr(<< ItemA, ItemB >>) >> >>),
      JArr(<< ItemC >>),
      JObj(<< << "count", JNum(<< "1" >>) >>, << "items", JArr(<< ItemB >>) >> >>) }

Tok1 == << "t", "1" >>
Tok2 == << "t", "2" >>
\* response headers: the two continuation headers, each absent (None), empty or set
FetchHeaders ==
    { [xms |-> None,             ct |-> None],
      [xms |-> Some(<< >>),      ct |-> None],
      [xms |-> Some(Tok1),       ct |-> None],
      [xms |-> None,             ct |-> Some(Tok2)],
      [xms |-> Some(<< >>),      ct |-> Some(Tok2)],
      [xms |-> Some(Tok1),       ct |-> Some(Tok2)] }

ContinuationParam ==
    << "c", "o", "n", "t", "i", "n", "u", "a", "t", "i", "o", "n",
       "T", "o", "k", "e", "n", "=" >>

\* '?' in current_url
Contains(s, c) == \E i \in 1..Len(s) : s[i] = c

\* a request URL whose separator is always '?'
RequestUrlAlwaysQuestion(current_url, token) ==
    IF TruthyOpt(token)
    THEN current_url \o << "?" >> \o ContinuationParam \o token.v
    ELSE current_url

\* lines 41-45: the URL of the next request
RequestUrl(current_url, token) ==
    IF TruthyOpt(token)
    THEN current_url
             \o << (IF Contains(current_url, "?") THEN "&" ELSE "?") >>
             \o ContinuationParam \o token.v
    ELSE current_url

\* lines 79-81: x-ms-continuationtoken, else ContinuationToken
NextTokenPrimaryOnly(headers) == headers.xms
NextToken(headers) ==
    IF ~TruthyOpt(headers.xms) THEN headers.ct ELSE headers.xms

\* lines 83-84: `if not continuation_token: break`
LoopExit(token) == IF ~TruthyOpt(token) THEN "output" ELSE "loop"

\* lines 86-94: every handler of the loop ends in `raise`, the function is left
AfterFetchErrorRetry == "loop"
AfterFetchError == "raised"

\* line 25: `if not azure_devops_ext_pat`
PatMissingOnlyUnset(pat) == ~pat.some
PatMissing(pat) == ~TruthyOpt(pat)

\* lines 24-26 and 36-38
CheckPat ==
    /\ pc = "start"
    /\ IF PatMissing(azure_devops_ext_pat)
       THEN /\ exc' = "ValueError"
            /\ pc' = "raised"
            /\ UNCHANGED << all_data, continuation_token >>
       ELSE /\ all_data' = << >>
            /\ continuation_token' = None
            /\ pc' = "loop"
            /\ exc' = exc
    /\ UNCHANGED << azure_devops_ext_pat, url, output_filename, requests, pages,
                    out_file, stdout, stderr, exit_status >>

\* one iteration of the loop, lines 40-84, the request succeeding
FetchPageOk ==
    /\ pc = "loop"
    /\ Len(requests) < MaxPages
    /\ \E body \in FetchBodies, headers \in FetchHeaders :
          /\ requests' = Append(requests, RequestUrl(url, continuation_token))
          /\ pages' = Append(pages, [body |-> body, headers |-> headers])
          /\ all_data' = Extend(all_data, Normalize(body))
          /\ continuation_token' = NextToken(headers)
          /\ pc' = LoopExit(NextToken(headers))
    /\ UNCHANGED << azure_devops_ext_pat, url, output_filename, exc, out_file,
                    stdout, stderr, exit_status >>

\* lines 48-49 raising requests.exceptions.RequestException; lines 86-88
FetchPageTransportError ==
    /\ pc = "loop"
    /\ Len(requests) < MaxPages
    /\ requests' = Append(requests, RequestUrl(url, continuation_token))
    /\ stderr' = Append(stderr, [msg |-> "Erro na requisicao para",
                                 ctx |-> RequestUrl(url, continuation_token)])
    /\ exc' = "RequestException"
    /\ pc' = AfterFetchError
    /\ UNCHANGED << azure_devops_ext_pat, url, output_filename, all_data,
                    continuation_token, pages, out_file, stdout, exit_status >>

\* line 51 raising a JSON decode error; lines 86-91.  The decode error of
\* requests >= 2.27 is also a RequestException and is reported by the first
\* handler, an older one by the second: either message, then re-raised.
FetchPageDecodeError ==
    /\ pc = "loop"
    /\ Len(requests) < MaxPages
    /\ requests' = Append(requests, RequestUrl(url, continuation_token))
    /\ \E m \in { "Erro na requisicao para", "Erro ao decodificar JSON da resposta da URL" } :
          stderr' = Append(stderr, [msg |-> m,
                                    ctx |-> RequestUrl(url, continuation_token)])
    /\ exc' = "JSONDecodeError"
    /\ pc' = AfterFetchError
    /\ UNCHANGED << azure_devops_ext_pat, url, output_filename, all_data,
                    continuation_token, pages, out_file, stdout, exit_status >>

\* lines 97-101: the file is written, the success message printed
WriteFile ==
    /\ pc = "output"
    /\ TruthyOpt(output_filename)
    /\ out_file' = [state |-> "written", data |-> all_data]
    /\ stdout' = Append(stdout, [kind |-> "Dados salvos com sucesso", data |-> << >>])
    /\ pc' = "returned"
    /\ UNCHANGED << azure_devops_ext_pat, url, output_filename, all_data,
                    continuation_token, requests, pages, exc, stderr, exit_status >>

\* lines 98-104: open() or json.dump() raising IOError (nothing or a part written)
WriteFileError ==
    /\ pc = "output"
    /\ TruthyOpt(output_filename)
    /\ \E st \in { "untouched", "partial" } :
          out_file' = [state |-> st, data |-> << >>]
    /\ stderr' = Append(stderr, [msg |-> "Erro ao salvar os dados no arquivo",
                                 ctx |-> output_filename.v])
    /\ exc' = "IOError"
    /\ pc' = "raised"
    /\ UNCHANGED << azure_devops_ext_pat, url, output_filename, all_data,
                    continuation_token, requests, pages, stdout, exit_status >>

\* lines 105-106
PrintData ==
    /\ pc = "output"
    /\ ~TruthyOpt(output_filename)
    /\ stdout' = Append(stdout, [kind |-> "json", data |-> all_data])
    /\ pc' = "returned"
    /\ UNCHANGED << azure_devops_ext_pat, url, output_filename, all_data,
                    continuation_token, requests, pages, exc, out_file, stderr,
                    exit_status >>

\* lines 125-130: the message of the first handler that matches
MainHandlerMsg(e) ==
    IF e \in { "ValueError", "JSONDecodeError" } THEN "Erro de configuracao"
    ELSE IF e = "RequestException" THEN "Erro na requisicao HTTP"
    ELSE "Um erro inesperado ocorreu"

\* the status the script ends with after a handler of lines 125-130 ran:
\* no handler calls sys.exit, the script runs off its end
ExitAfterHandler == 0

\* lines 123-130: __main__ catches what the function raised
MainExcept ==
    /\ pc = "raised"
    /\ stderr' = Append(stderr, [msg |-> MainHandlerMsg(exc), ctx |-> << >>])
    /\ exit_status' = ExitAfterHandler
    /\ pc' = "exit"
    /\ UNCHANGED << azure_devops_ext_pat, url, output_filename, all_data,
                    continuation_token, requests, pages, exc, out_file, stdout >>

\* line 124 returning normally: the script ends
MainReturn ==
    /\ pc = "returned"
    /\ exit_status' = 0
    /\ pc' = "exit"
    /\ UNCHANGED << azure_devops_ext_pat, url, output_filename, all_data,
                    continuation_token, requests, pages, exc, out_file, stdout,
                    stderr >>

InitExtractor ==
    /\ pc = "start"
    /\ azure_devops_ext_pat \in PatValues
    /\ url \in BaseUrls
    /\ output_filename \in OutNames
    /\ all_data = << >>
    /\ continuation_token = None
    /\ requests = << >>
    /\ pages = << >>
    /\ exc = "none"
    /\ out_file = [state |-> "untouched", data |-> << >>]
    /\ stdout = << >>
    /\ stderr = << >>
    /\ exit_status = -1

\* the extractor not running
IdleExtractor ==
    /\ pc = "idle"
    /\ azure_devops_ext_pat = None
    /\ url = << >>
    /\ output_filename = None
    /\ all_data = << >>
    /\ continuation_token = None
    /\ requests = << >>
    /\ pages = << >>
    /\ exc = "none"
    /\ out_file = [state |-> "untouched", data |-> << >>]
    /\ stdout = << >>
    /\ stderr = << >>
    /\ exit_status = -1

(***************************************************************************)
(* The normalizer on its own: one page in, its items out.                  *)
(***************************************************************************)
Item1 == JNum(<< "1" >>)
Item2 == JNum(<< "2" >>)
Item3 == JNum(<< "3" >>)

NormKeys == { "value", "count", "other" }
NormValues == { JStr(<< "x" >>), JNull, JArr(<< Item1, Item2 >>), JArr(<< Item3 >>) }
NormEntries == { << k, v >> : k \in NormKeys, v \in NormValues }

\* a JSON object has one entry per key
DistinctKeys(entries) ==
    \A i, j \in 1..Len(entries) : entries[i][1] = entries[j][1] => i = j

NormObjects ==
    { JObj(e) : e \in { f \in UNION { [1..n -> NormEntries] : n \in 0..MaxEntries } :
                            DistinctKeys(f) } }

NormPages ==
    NormObjects
        \cup { JArr(<< >>), JArr(<< Item1, Item2, Item3 >>),
               JStr(<< "x" >>), JNull, JNum(<< "1" >>) }

InitNorm ==
    /\ n_page \in NormPages
    /\ n_items = << >>
    /\ n_done = FALSE

IdleNorm ==
    /\ n_page = JNull
    /\ n_items = << >>
    /\ n_done = FALSE

\* lines 51-75 on one decoded body
NormalizePage ==
    /\ ~n_done
    /\ n_items' = Normalize(n_page)
    /\ n_done' = TRUE
    /\ UNCHANGED n_page

(***************************************************************************)
(* Identifier sanitization:                                                *)
(*   re.sub(r'[^a-z0-9]+', '_', name.lower()).strip('_') or the fallback   *)
(* (project 54-56, repos 51-58, variablegroups 47-53).                     *)
(***************************************************************************)
UpperCase == << "A", "B", "C", "D", "E", "F", "G", "H", "I", "J", "K", "L", "M",
                "N", "O", "P", "Q", "R", "S", "T", "U", "V", "W", "X", "Y", "Z" >>
LowerCase == << "a", "b", "c", "d", "e", "f", "g", "h", "i", "j", "k", "l", "m",
                "n", "o", "p", "q", "r", "s", "t", "u", "v", "w", "x", "y", "z" >>
Digits == { "0", "1", "2", "3", "4", "5", "6", "7", "8", "9" }

\* the character class [a-z0-9]
IsAlnum(c) == c \in Digits \/ \E i \in 1..Len(LowerCase) : LowerCase[i] = c

\* str.lower(), character by character
LowerChar(c) ==
    IF \E i \in 1..Len(UpperCase) : UpperCase[i] = c
    THEN LowerCase[CHOOSE i \in 1..Len(UpperCase) : UpperCase[i] = c]
    ELSE c
LowerStr(s) == [i \in 1..Len(s) |-> LowerChar(s[i])]

RECURSIVE DropNonAlnum(_)
\* the rest of s after its leading run of characters outside [a-z0-9]
DropNonAlnum(s) ==
    IF s = << >> \/ IsAlnum(Head(s)) THEN s ELSE DropNonAlnum(Tail(s))

RECURSIVE SubRuns(_)
\* re.sub(r'[^a-z0-9]+', '_', s): every maximal run becomes one underscore
SubRuns(s) ==
    IF s = << >> THEN << >>
    ELSE IF IsAlnum(Head(s)) THEN << Head(s) >> \o SubRuns(Tail(s))
    ELSE << "_" >> \o SubRuns(DropNonAlnum(s))

RECURSIVE LStrip(_)
LStrip(s) == IF s # << >> /\ Head(s) = "_" THEN LStrip(Tail(s)) ELSE s
RECURSIVE RStrip(_)
RStrip(s) ==
    IF s # << >> /\ s[Len(s)] = "_" THEN RStrip(SubSeq(s, 1, Len(s) - 1)) ELSE s
\* str.strip('_')
Strip(s) == RStrip(LStrip(s))

\* a sanitizer that strips before it substitutes
SanitizeStripFirst(name, fallback) ==
    LET r == SubRuns(Strip(LowerStr(name)))
    IN IF r = << >> THEN fallback ELSE r

\* a sanitizer that forgets strip('_')
SanitizeNoStrip(name, fallback) ==
    LET r == SubRuns(LowerStr(name))
    IN IF r = << >> THEN fallback ELSE r

Sanitize(name, fallback) ==
    LET r == Strip(SubRuns(LowerStr(name)))
    IN IF r = << >> THEN fallback ELSE r

unnamed_project ==
    << "u", "n", "n", "a", "m", "e", "d", "_", "p", "r", "o", "j", "e", "c", "t" >>
unnamed_repository ==
    << "u", "n", "n", "a", "m", "e", "d", "_",
       "r", "e", "p", "o", "s", "i", "t", "o", "r", "y" >>
unnamed_variablegroup ==
    << "u", "n", "n", "a", "m", "e", "d", "_",
       "v", "a", "r", "i", "a", "b", "l", "e", "g", "r", "o", "u", "p" >>
unnamed_project_ref == unnamed_project \o << "_", "r", "e", "f" >>
Fallbacks ==
    { unnamed_project, unnamed_repository, unnamed_variablegroup, unnamed_project_ref }

\* characters the names are drawn from: lower case, upper case, digit,
\* underscore, punctuation, blank
NameAlphabet == { "a", "B", "7", "_", "!", " " }
Names == UNION { [1..n -> NameAlphabet] : n \in 0..MaxLen }

InitSan ==
    /\ s_name \in Names
    /\ s_fallback \in Fallbacks
    /\ s_once = << >>
    /\ s_twice = << >>
    /\ s_stage = 0

IdleSan ==
    /\ s_name = << >>
    /\ s_fallback = << >>
    /\ s_once = << >>
    /\ s_twice = << >>
    /\ s_stage = 0

\* the name is sanitized
SanitizeOnce ==
    /\ s_stage = 0
    /\ s_once' = Sanitize(s_name, s_fallback)
    /\ s_stage' = 1
    /\ UNCHANGED << s_name, s_fallback, s_twice >>

\* the identifier is sanitized again
SanitizeAgain ==
    /\ s_stage = 1
    /\ s_twice' = Sanitize(s_once, s_fallback)
    /\ s_stage' = 2
    /\ UNCHANGED << s_name, s_fallback, s_once >>

(***************************************************************************)
(* The generators: gerar_terraform_{projeto,repositorio,variablegroup}_ado *)
(* and the __main__ block of each script.                                  *)
(***************************************************************************)
Kinds == { "Project", "Repository", "VariableGroup" }

\* what json.loads makes of the input text: a syntax error, or a value
InvalidJson == [valid |-> FALSE, data |-> JNull]
Parsed(x) == [valid |-> TRUE, data |-> x]

\* the blocks a generator returns
NoneBlock == [state |-> "None", type |-> "", label |-> << >>, fields |-> << >>,
              variables |-> << >>]
NoneImport == [state |-> "None", id |-> << >>, to_type |-> "", to_label |-> << >>]
\* terraform_import_block = "" (lines 69 / 84 / 71)
EmptyImport == [state |-> "empty", id |-> << >>, to_type |-> "", to_label |-> << >>]
\* `if block:` / `if not block:` on a returned block
TruthyBlock(b) == b.state = "text"

\* return None, None
ReturnNone == [outcome |-> "invalid", resource |-> NoneBlock, import |-> NoneImport]
\* an exception no handler of the function catches (AttributeError of
\* None.get, int.lower, None.items, ...): the function returns nothing
Uncaught == [outcome |-> "crash", resource |-> NoneBlock, import |-> NoneImport]
NoResult == [outcome |-> "none", resource |-> NoneBlock, import |-> NoneImport]

\* lines 21-35 of each generator: the entity of the top-level JSON value
SelectLast(input) ==
    IF ~input.valid THEN [ok |-> FALSE, entity |-> JNull]
    ELSE IF IsList(input.data) /\ Len(input.data.a) > 0
    THEN [ok |-> TRUE, entity |-> input.data.a[Len(input.data.a)]]
    ELSE IF IsDict(input.data) THEN [ok |-> TRUE, entity |-> input.data]
    ELSE [ok |-> FALSE, entity |-> JNull]
SelectEntity(input) ==
    IF ~input.valid THEN [ok |-> FALSE, entity |-> JNull]
    ELSE IF IsList(input.data) /\ Len(input.data.a) > 0
    THEN [ok |-> TRUE, entity |-> input.data.a[1]]
    ELSE IF IsDict(input.data) THEN [ok |-> TRUE, entity |-> input.data]
    ELSE [ok |-> FALSE, entity |-> JNull]

\* json.dumps of a string: quoted, with quotes and backslashes escaped
RECURSIVE JsonEscape(_)
JsonEscape(s) ==
    IF s = << >> THEN << >>
    ELSE IF Head(s) \in { "\"", "\\" } THEN << "\\", Head(s) >> \o JsonEscape(Tail(s))
    ELSE << Head(s) >> \o JsonEscape(Tail(s))
\* json.dumps(project_description) (a string, a number, true/false or null)
JsonDumps(x) ==
    CASE x.t = "str" -> << "\"" >> \o JsonEscape(x.s) \o << "\"" >>
      [] x.t = "null" -> << "n", "u", "l", "l" >>
      [] OTHER -> x.s

\* the id of the import block: project 73, repos 88, variablegroups 75
ImportIdSelfFirst(kind, self_id, parent_id) ==
    IF kind = "Project" THEN PyStr(self_id)
    ELSE PyStr(self_id) \o << "/" >> \o PyStr(parent_id)
ImportId(kind, self_id, parent_id) ==
    IF kind = "Project" THEN PyStr(self_id)
    ELSE PyStr(parent_id) \o << "/" >> \o PyStr(self_id)

private == << "p", "r", "i", "v", "a", "t", "e" >>
Agile == << "A", "g", "i", "l", "e" >>
Git == << "G", "i", "t" >>

\* terraform_azure_devops_project.py lines 37-77
RenderProject(dados_projeto) ==
    IF ~IsDict(dados_projeto) THEN Uncaught
    ELSE
    LET project_id == Get(dados_projeto, "id", JNull)
        project_name == Get(dados_projeto, "name", JNull)
        project_description == Get(dados_projeto, "description", JStr(<< >>))
        project_visibility == Get(dados_projeto, "visibility", JStr(private))
        capabilities == Get(dados_projeto, "capabilities", JObj(<< >>))
    IN
    IF ~IsDict(capabilities) THEN Uncaught
    ELSE
    LET process_template_data == Get(capabilities, "processTemplate", JObj(<< >>))
        version_control_data == Get(capabilities, "versioncontrol", JObj(<< >>))
    IN
    IF ~IsDict(process_template_data) \/ ~IsDict(version_control_data) THEN Uncaught
    ELSE
    LET work_item_template == Get(process_template_data, "templateName", JStr(Agile))
        version_control == Get(version_control_data, "sourceControlType", JStr(Git))
    IN
    IF ~All(<< project_id, project_name >>) THEN ReturnNone
    ELSE IF ~IsStr(project_name) THEN Uncaught
    ELSE
    LET resource_name_snake_case == Sanitize(project_name.s, unnamed_project)
    IN [outcome |-> "ok",
        resource |->
            [state |-> "text",
             type |-> "azuredevops_project",
             label |-> resource_name_snake_case,
             fields |-> << << "name", project_name.s >>,
                           << "description", JsonDumps(project_description) >>,
                           << "visibility", PyStr(project_visibility) >>,
                           << "version_control", PyStr(version_control) >>,
                           << "work_item_template", PyStr(work_item_template) >> >>,
             variables |-> << >>],
        import |->
            IF Truthy(project_id)
            THEN [state |-> "text",
                  id |-> ImportId("Project", project_id, JNull),
                  to_type |-> "azuredevops_project",
                  to_label |-> resource_name_snake_case]
            ELSE EmptyImport]

\* terraform_azure_devops_repos.py lines 38-93
RenderRepository(dados_repositorio) ==
    IF ~IsDict(dados_repositorio) THEN Uncaught
    ELSE
    LET repo_id == Get(dados_repositorio, "id", JNull)
        repo_name == Get(dados_repositorio, "name", JNull)
        project_data == Get(dados_repositorio, "project", JObj(<< >>))
    IN
    IF ~IsDict(project_data) THEN Uncaught
    ELSE
    LET project_id == Get(project_data, "id", JNull)
        project_name == Get(project_data, "name", JNull)
    IN
    IF ~All(<< repo_id, repo_name, project_id, project_name >>)
    THEN ReturnNone
    ELSE IF ~IsStr(repo_name) \/ ~IsStr(project_name) THEN Uncaught
    ELSE
    LET repo_resource_name_snake_case == Sanitize(repo_name.s, unnamed_repository)
        project_resource_name_snake_case ==
            Sanitize(project_name.s, unnamed_project_ref)
    IN [outcome |-> "ok",
        resource |->
            [state |-> "text",
             type |-> "azuredevops_git_repository",
             label |-> repo_resource_name_snake_case,
             fields |-> << << "project_id", project_resource_name_snake_case >>,
                           << "name", repo_name.s >>,
                           << "initialization.init_type", << "Clean" >> >>,
                           << "lifecycle.ignore_changes", << "initialization" >> >>,
                           << "lifecycle.prevent_destroy", << "true" >> >> >>,
             variables |-> << >>],
        import |->
            IF Truthy(repo_id) /\ Truthy(project_id)
            THEN [state |-> "text",
                  id |-> ImportId("Repository", repo_id, project_id),
                  to_type |-> "azuredevops_git_repository",
                  to_label |-> repo_resource_name_snake_case]
            ELSE EmptyImport]

\* terraform_azure_devops_variablegroups.py lines 57-60: one sub-block per entry
\* the sub-blocks with str(is_secret) not lower-cased
VariablesBlockNoLower(variables) ==
    [i \in 1..Len(variables.o) |->
        LET var_data == variables.o[i][2]
        IN [name |-> variables.o[i][1],
            value |-> << "\"" >> \o PyStr(Get(var_data, "value", JStr(<< >>))) \o << "\"" >>,
            is_secret |-> PyStr(Get(var_data, "isSecret", JBool(FALSE)))]]
\* each entry gives  name = { value = "<value>"  is_secret = <flag> }
VariablesBlock(variables) ==
    [i \in 1..Len(variables.o) |->
        LET var_data == variables.o[i][2]
        IN [name |-> variables.o[i][1],
            value |-> << "\"" >> \o PyStr(Get(var_data, "value", JStr(<< >>))) \o << "\"" >>,
            is_secret |-> LowerStr(PyStr(Get(var_data, "isSecret", JBool(FALSE))))]]

\* terraform_azure_devops_variablegroups.py lines 37-79
RenderVariableGroup(dados_vg) ==
    IF ~IsDict(dados_vg) THEN Uncaught
    ELSE
    LET vg_id == Get(dados_vg, "id", JNull)
        vg_name == Get(dados_vg, "name", JNull)
        projectReference == Get(dados_vg, "projectReference", JObj(<< >>))
        variables == Get(dados_vg, "variables", JObj(<< >>))
    IN
    IF ~IsDict(projectReference) THEN Uncaught
    ELSE
    LET project_id == Get(projectReference, "id", JNull)
        project_name == Get(projectReference, "name", JNull)
    IN
    IF ~All(<< vg_id, vg_name, project_id, project_name >>)
    THEN ReturnNone
    ELSE IF ~IsStr(vg_name) \/ ~IsStr(project_name) THEN Uncaught
    ELSE IF ~IsDict(variables) THEN Uncaught
    ELSE IF \E i \in 1..Len(variables.o) : ~IsDict(variables.o[i][2]) THEN Uncaught
    ELSE
    LET vg_resource_name_snake_case == Sanitize(vg_name.s, unnamed_variablegroup)
        project_resource_name_snake_case ==
            Sanitize(project_name.s, unnamed_project_ref)
    IN [outcome |-> "ok",
        resource |->
            [state |-> "text",
             type |-> "azuredevops_variable_group",
             label |-> vg_resource_name_snake_case,
             fields |-> << << "project_id", project_resource_name_snake_case >>,
                           << "name", vg_name.s >> >>,
             variables |-> VariablesBlock(variables)],
        import |->
            IF Truthy(vg_id) /\ Truthy(project_id)
            THEN [state |-> "text",
                  id |-> ImportId("VariableGroup", vg_id, project_id),
                  to_type |-> "azuredevops_variable_group",
                  to_label |-> vg_resource_name_snake_case]
            ELSE EmptyImport]

\* the part of a generator after the entity is selected
RenderEntity(kind, entity) ==
    CASE kind = "Project" -> RenderProject(entity)
      [] kind = "Repository" -> RenderRepository(entity)
      [] kind = "VariableGroup" -> RenderVariableGroup(entity)

\* gerar_terraform_projeto_ado / gerar_terraform_repositorio_ado /
\* gerar_terraform_variablegroup_ado
Render(kind, input) ==
    IF SelectEntity(input).ok
    THEN RenderEntity(kind, SelectEntity(input).entity)
    ELSE ReturnNone

(***************************************************************************)
(* Inputs of the generators.                                               *)
(***************************************************************************)
\* an entity is the concatenation of one choice per field; << >> leaves the key out
IdChoices ==
    { << >>,
      << << "id", JNull >> >>,
      << << "id", JStr(<< >>) >> >>,
      << << "id", JNum(<< "0" >>) >> >>,
      << << "id", JStr(<< "7" >>) >> >> }
NameChoices ==
    { << >>,
      << << "name", JStr(<< >>) >> >>,
      << << "name", JStr(<< "M", "y", " ", "P", "r", "o", "j", "!" >>) >> >>,
      << << "name", JStr(<< "!", "!", "!" >>) >> >> }
ParentObjects ==
    { JNull,
      JObj(<< >>),
      JObj(<< << "id", JStr(<< "9" >>) >> >>),
      JObj(<< << "id", JStr(<< >>) >>, << "name", JStr(<< "P" >>) >> >>),
      JObj(<< << "id", JStr(<< "9" >>) >>,
              << "name", JStr(<< "C", "o", "r", "e", " ", "P", "r", "o", "j" >>) >> >>),
      JObj(<< << "id", JStr(<< "9" >>) >>, << "name", JStr(<< "-", "-" >>) >> >>) }
ParentChoices(key) == { << >> } \cup { << << key, p >> >> : p \in ParentObjects }
CapabilitiesChoices ==
    { << >>,
      << << "capabilities", JNull >> >>,
      << << "capabilities", JObj(<< >>) >> >>,
      << << "capabilities", JObj(<< << "processTemplate", JNull >> >>) >> >>,
      << << "capabilities",
            JObj(<< << "processTemplate",
                       JObj(<< << "templateName", JStr(<< "S", "c", "r", "u", "m" >>) >> >>) >>,
                    << "versioncontrol",
                       JObj(<< << "sourceControlType", JStr(<< "T", "f", "v", "c" >>) >> >>) >> >>) >> >> }
DescriptionChoices ==
    { << >>,
      << << "description", JStr(<< "a", "\"", "b" >>) >>,
         << "visibility", JStr(<< "p", "u", "b", "l", "i", "c" >>) >> >> }
\* four entries: a secret, a value holding a quote, a null value with a null
\* flag, an entry without a value
FourVariables ==
    JObj(<< << "k1", JObj(<< << "value", JStr(<< "v" >>) >>, << "isSecret", JBool(TRUE) >> >>) >>,
            << "k2", JObj(<< << "value", JStr(<< "a", "\"", "b" >>) >> >>) >>,
            << "k3", JObj(<< << "value", JNull >>, << "isSecret", JNull >> >>) >>,
            << "k4", JObj(<< << "isSecret", JBool(FALSE) >> >>) >> >>)
VariablesChoices ==
    { << >>,
      << << "variables",
            JObj(<< << "k1", JObj(<< << "value", JStr(<< "v" >>) >>,
                                     << "isSecret", JBool(TRUE) >> >>) >>,
                    << "k2", JObj(<< << "value", JStr(<< "w" >>) >> >>) >> >>) >> >>,
      << << "variables", JObj(<< >>) >> >>,
      << << "variables", FourVariables >> >> }

Entities(kind) ==
    CASE kind = "Project" ->
            { JObj(i \o n \o c \o d) : i \in IdChoices, n \in NameChoices,
                                       c \in CapabilitiesChoices, d \in DescriptionChoices }
      [] kind = "Repository" ->
            { JObj(i \o n \o p) : i \in IdChoices, n \in NameChoices,
                                  p \in ParentChoices("project") }
      [] kind = "VariableGroup" ->
            { JObj(i \o n \o p \o v) : i \in IdChoices, n \in NameChoices,
                                       p \in ParentChoices("projectReference"),
                                       v \in VariablesChoices }

\* a complete entity of every kind, and a non-entity, as later array elements
OtherEntity ==
    JObj(<< << "id", JStr(<< "8" >>) >>, << "name", JStr(<< "o" >>) >>,
            << "project", JObj(<< << "id", JStr(<< "1" >>) >>, << "name", JStr(<< "q" >>) >> >>) >>,
            << "projectReference",
               JObj(<< << "id", JStr(<< "1" >>) >>, << "name", JStr(<< "q" >>) >> >>) >> >>)
LaterElements == { OtherEntity, JNull }

\* the top-level JSON values: a bare object, arrays of one and two elements,
\* an empty array, scalars, an array whose first element is no object, bad syntax
Inputs(kind) ==
    { Parsed(e) : e \in Entities(kind) }
        \cup { Parsed(JArr(<< e >>)) : e \in Entities(kind) }
        \cup { Parsed(JArr(<< e, o >>)) : e \in Entities(kind), o \in LaterElements }
        \cup { Parsed(JArr(<< >>)), Parsed(JStr(<< "x" >>)), Parsed(JNull),
               Parsed(JArr(<< JNull, OtherEntity >>)), InvalidJson }

\* --json: a readable file or piped stdin ("read"), a file that is not there
\* ("missing"), no --json and an interactive stdin ("tty");
\* --terraform and --import: given or not
GenArgs ==
    [ src : { "read", "missing", "tty" },
      terraform : { None, Some(<< "r", ".", "t", "f" >>) },
      import_file : { None, Some(<< "i", ".", "t", "f" >>) } ]

InitGen ==
    /\ g_pc = "start"
    /\ g_kind \in Kinds
    /\ g_args \in GenArgs
    /\ g_input \in (IF g_args.src = "read" THEN Inputs(g_kind) ELSE { InvalidJson })
    /\ g_result = NoResult
    /\ g_files = [terraform |-> NoneBlock, import_file |-> NoneImport]
    /\ g_stdout = << >>
    /\ g_exit = -1

IdleGen ==
    /\ g_pc = "idle"
    /\ g_kind = "Project"
    /\ g_args = [src |-> "tty", terraform |-> None, import_file |-> None]
    /\ g_input = InvalidJson
    /\ g_result = NoResult
    /\ g_files = [terraform |-> NoneBlock, import_file |-> NoneImport]
    /\ g_stdout = << >>
    /\ g_exit = -1

(***************************************************************************)
(* __main__ of a generator (project 99-149, repos 115-165, vg 101-148).    *)
(***************************************************************************)
\* the input text is read from the file or from stdin
GenReadInput ==
    /\ g_pc = "start"
    /\ g_args.src = "read"
    /\ g_pc' = "render"
    /\ UNCHANGED << g_kind, g_input, g_args, g_result, g_files, g_stdout, g_exit >>

\* FileNotFoundError / read error / nothing piped: sys.exit(1)
GenReadInputError ==
    /\ g_pc = "start"
    /\ g_args.src # "read"
    /\ g_exit' = 1
    /\ g_pc' = "exit"
    /\ UNCHANGED << g_kind, g_input, g_args, g_result, g_files, g_stdout >>

\* the generator is called; `if not resource_block and not import_block:
\* sys.exit(1)`; an uncaught exception ends the interpreter with status 1
GenRender ==
    /\ g_pc = "render"
    /\ g_result' = Render(g_kind, g_input)
    /\ IF Render(g_kind, g_input).outcome = "crash"
       THEN g_exit' = 1 /\ g_pc' = "exit"
       ELSE IF ~TruthyBlock(Render(g_kind, g_input).resource)
                /\ ~TruthyBlock(Render(g_kind, g_input).import)
       THEN g_exit' = 1 /\ g_pc' = "exit"
       ELSE g_exit' = g_exit /\ g_pc' = "write_resource"
    /\ UNCHANGED << g_kind, g_input, g_args, g_files, g_stdout >>

\* `if resource_block:` with its file written, its write failing
\* (sys.exit(1)), or the block printed
GenOutputResource ==
    /\ g_pc = "write_resource"
    /\ IF ~TruthyBlock(g_result.resource)
       THEN /\ g_pc' = "write_import"
            /\ UNCHANGED << g_files, g_stdout, g_exit >>
       ELSE IF TruthyOpt(g_args.terraform)
       THEN \E ok \in BOOLEAN :
               IF ok
               THEN /\ g_files' = [g_files EXCEPT !.terraform = g_result.resource]
                    /\ g_stdout' = Append(g_stdout, "Bloco Terraform de recurso salvo")
                    /\ g_pc' = "write_import"
                    /\ g_exit' = g_exit
               ELSE /\ g_exit' = 1
                    /\ g_pc' = "exit"
                    /\ UNCHANGED << g_files, g_stdout >>
       ELSE /\ g_stdout' = g_stdout \o << "--- Bloco Terraform para o Recurso ---",
                                          "resource_block" >>
            /\ g_pc' = "write_import"
            /\ UNCHANGED << g_files, g_exit >>
    /\ UNCHANGED << g_kind, g_input, g_args, g_result >>

\* `if import_block:` likewise; then the script ends
GenOutputImport ==
    /\ g_pc = "write_import"
    /\ IF ~TruthyBlock(g_result.import)
       THEN /\ g_exit' = 0
            /\ UNCHANGED << g_files, g_stdout >>
       ELSE IF TruthyOpt(g_args.import_file)
       THEN \E ok \in BOOLEAN :
               IF ok
               THEN /\ g_files' = [g_files EXCEPT !.import_file = g_result.import]
                    /\ g_stdout' = Append(g_stdout, "Bloco Terraform de importacao salvo")
                    /\ g_exit' = 0
               ELSE /\ g_exit' = 1
                    /\ UNCHANGED << g_files, g_stdout >>
       ELSE /\ g_stdout' = g_stdout \o << "--- Bloco Terraform para Import ---",
                                          "import_block" >>
            /\ g_exit' = 0
            /\ g_files' = g_files
    /\ g_pc' = "exit"
    /\ UNCHANGED << g_kind, g_input, g_args, g_result >>

(***************************************************************************)
(* Specifications: the extractor, the normalizer, the sanitizer, the       *)
(* generators.                                                             *)
(***************************************************************************)
Init == InitExtractor /\ IdleNorm /\ IdleSan /\ IdleGen
Next ==
    \/ CheckPat /\ UNCHANGED << normVars, sanVars, genVars >>
    \/ FetchPageOk /\ UNCHANGED << normVars, sanVars, genVars >>
    \/ FetchPageTransportError /\ UNCHANGED << normVars, sanVars, genVars >>
    \/ FetchPageDecodeError /\ UNCHANGED << normVars, sanVars, genVars >>
    \/ WriteFile /\ UNCHANGED << normVars, sanVars, genVars >>
    \/ WriteFileError /\ UNCHANGED << normVars, sanVars, genVars >>
    \/ PrintData /\ UNCHANGED << normVars, sanVars, genVars >>
    \/ MainExcept /\ UNCHANGED << normVars, sanVars, genVars >>
    \/ MainReturn /\ UNCHANGED << normVars, sanVars, genVars >>
Spec == Init /\ [][Next]_vars

InitN == IdleExtractor /\ InitNorm /\ IdleSan /\ IdleGen
NextN == NormalizePage /\ UNCHANGED << extractorVars, sanVars, genVars >>
SpecNorm == InitN /\ [][NextN]_vars

InitS == IdleExtractor /\ IdleNorm /\ InitSan /\ IdleGen
NextS ==
    \/ SanitizeOnce /\ UNCHANGED << extractorVars, normVars, genVars >>
    \/ SanitizeAgain /\ UNCHANGED << extractorVars, normVars, genVars >>
SpecSan == InitS /\ [][NextS]_vars

InitG == IdleExtractor /\ IdleNorm /\ IdleSan /\ InitGen
NextG ==
    \/ GenReadInput /\ UNCHANGED << extractorVars, normVars, sanVars >>
    \/ GenReadInputError /\ UNCHANGED << extractorVars, normVars, sanVars >>
    \/ GenRender /\ UNCHANGED << extractorVars, normVars, sanVars >>
    \/ GenOutputResource /\ UNCHANGED << extractorVars, normVars, sanVars >>
    \/ GenOutputImport /\ UNCHANGED << extractorVars, normVars, sanVars >>
SpecGen == InitG /\ [][NextG]_vars

(***************************************************************************)
(* Properties of the extractor (specification Spec).                       *)
(***************************************************************************)
IsPrefix(s, u) == Len(s) <= Len(u) /\ SubSeq(u, 1, Len(s)) = s

RECURSIVE ConcatNormalized(_)
\* normalize(page_1) \o normalize(page_2) \o ... of the pages fetched so far
ConcatNormalized(ps) ==
    IF ps = << >> THEN << >>
    ELSE ConcatNormalized(SubSeq(ps, 1, Len(ps) - 1)) \o Normalize(ps[Len(ps)].body)

\* C1: at every point the aggregate is the concatenation, in page-arrival
\* order, of the normalized items of the pages fetched so far, and a step only
\* appends to it: the old aggregate is a prefix of the new one.
C1_AggregateIsConcatenation ==
    /\ [](all_data = ConcatNormalized(pages))
    /\ [][IsPrefix(all_data, all_data') /\ IsPrefix(pages, pages')]_vars

\* two pages were fetched and the aggregate is their items in arrival order
C1_Witness ==
    /\ Len(pages) = 2
    /\ pages[1].body = JObj(<< << "value", JArr(<< ItemA, ItemB >>) >> >>)
    /\ pages[2].body = JArr(<< ItemC >>)
    /\ all_data = << ItemA, ItemB, ItemC >>
    /\ pc = "returned"

\* a response carries a continuation token in one of the two headers
HasToken(headers) == TruthyOpt(headers.xms) \/ TruthyOpt(headers.ct)
\* the fetch failed, or never began
FetchAborted == exc \in { "ValueError", "RequestException", "JSONDecodeError" }
LoopLeft == pc \notin { "start", "loop" }

\* C2: as long as no request fails, the loop is left exactly at the first
\* fetched page without a continuation token in either header: every earlier
\* page carried one, as many requests were issued as pages were fetched, the
\* loop is still running while every page so far carried a token, and once it
\* is left the aggregate and the requests never change.
C2_LoopEndsAtFirstPageWithoutToken ==
    /\ []((pc # "start" /\ ~FetchAborted) =>
            /\ LoopLeft <=> (pages # << >> /\ ~HasToken(pages[Len(pages)].headers))
            /\ \A i \in 1..(Len(pages) - 1) : HasToken(pages[i].headers)
            /\ Len(requests) = Len(pages))
    /\ [][(LoopLeft /\ ~FetchAborted) =>
            (all_data' = all_data /\ requests' = requests)]_vars

\* the second page is the first one without a token: two requests, loop left
C2_Witness ==
    /\ pc = "output"
    /\ Len(requests) = 2
    /\ Len(pages) = 2
    /\ HasToken(pages[1].headers)
    /\ ~HasToken(pages[2].headers)

\* a request failed in transport or in decoding
FetchFailed == exc \in { "RequestException", "JSONDecodeError" }

\* C8: when the request of page k fails (transport or JSON decoding), it was
\* issued once, after the k-1 successful ones, its URL is the one reported, it
\* is not repeated and no later request follows, and nothing is ever written
\* to the output file or to standard output.
C8_FetchFailureAborts ==
    /\ [](FetchFailed =>
            /\ Len(requests) = Len(pages) + 1
            /\ stderr # << >> /\ stderr[1].ctx = requests[Len(requests)]
            /\ pc \in { "raised", "exit" }
            /\ out_file.state = "untouched"
            /\ stdout = << >>)
    /\ [][FetchFailed =>
            (requests' = requests /\ out_file' = out_file /\ stdout' = stdout)]_vars

\* page 2 failed to decode after page 1 had delivered items; the process ended
C8_Witness ==
    /\ exc = "JSONDecodeError"
    /\ Len(pages) = 1
    /\ Len(requests) = 2
    /\ all_data # << >>
    /\ pc = "exit"

\* C7: every error ends the process with a non-zero status; status 0 only on
\* success.  Stated for the extractor.
C7_ErrorsExitNonZero ==
    pc = "exit" => (exit_status = 0 <=> exc = "none")

(***************************************************************************)
(* Properties of the normalizer (specification SpecNorm).                  *)
(***************************************************************************)
ValueIsArray(p) ==
    IsDict(p) /\ \E i \in 1..Len(p.o) : p.o[i][1] = "value" /\ IsList(p.o[i][2])

\* C3: the four rules in priority order, first match wins.
C3_NormalizationPriority ==
    n_done =>
        /\ ValueIsArray(n_page) =>
              \E i \in 1..Len(n_page.o) :
                  n_page.o[i][1] = "value" /\ n_items = n_page.o[i][2].a
        /\ (~ValueIsArray(n_page) /\ IsList(n_page)) => n_items = n_page.a
        /\ (~ValueIsArray(n_page) /\ IsDict(n_page)
                /\ \E i \in 1..Len(n_page.o) : IsList(n_page.o[i][2])) =>
              \E i \in 1..Len(n_page.o) :
                  /\ IsList(n_page.o[i][2])
                  /\ \A j \in 1..(i - 1) : ~IsList(n_page.o[j][2])
                  /\ n_items = n_page.o[i][2].a
        /\ (~IsList(n_page)
                /\ (IsDict(n_page) => \A i \in 1..Len(n_page.o) : ~IsList(n_page.o[i][2]))) =>
              n_items = << n_page >>
        /\ n_page = JObj(<< << "value", JArr(<< Item1, Item2 >>) >>,
                            << "other", JArr(<< Item3 >>) >> >>) =>
              n_items = << Item1, Item2 >>
        /\ n_page = JArr(<< Item1, Item2, Item3 >>) => n_items = << Item1, Item2, Item3 >>
        /\ n_page = JStr(<< "x" >>) => n_items = << JStr(<< "x" >>) >>

\* "value" is an array but not the first array-valued entry: rule 1 still wins
C3_Witness ==
    /\ n_done
    /\ n_page = JObj(<< << "other", JArr(<< Item3 >>) >>,
                        << "value", JArr(<< Item1, Item2 >>) >> >>)
    /\ n_items = << Item1, Item2 >>

(***************************************************************************)
(* Properties of the sanitizer (specification SpecSan).                    *)
(***************************************************************************)
\* C4: sanitizing a sanitized identifier again, with the same fallback,
\* changes nothing.
C4_SanitizeIdempotent ==
    s_stage = 2 => s_twice = s_once

\* a name with a leading separator and an upper-case letter was sanitized twice
C4_Witness ==
    /\ s_stage = 2
    /\ s_name = << "!", "B", "_" >>
    /\ s_once = << "b" >>
    /\ s_twice = << "b" >>

Rendered == g_result.outcome # "none"
ParentKey(kind) == IF kind = "Repository" THEN "project" ELSE "projectReference"
\* the value of a field, None when the key or the object holding it is missing
Field(x, k) ==
    IF IsDict(x) /\ \E i \in 1..Len(x.o) : x.o[i][1] = k
    THEN x.o[CHOOSE i \in 1..Len(x.o) : x.o[i][1] = k][2]
    ELSE JNull
\* some required field of the entity is absent or falsy
MissingRequired(kind, e) ==
    \/ ~Truthy(Field(e, "id"))
    \/ ~Truthy(Field(e, "name"))
    \/ /\ kind # "Project"
       /\ \/ ~Truthy(Field(Field(e, ParentKey(kind)), "id"))
          \/ ~Truthy(Field(Field(e, ParentKey(kind)), "name"))

\* C6: an entity with a required field absent or falsy is rendered to the pair
\* (None, None), never to anything else.
C6_MissingFieldReturnsNone ==
    (Rendered /\ SelectEntity(g_input).ok /\ IsDict(SelectEntity(g_input).entity)
        /\ MissingRequired(g_kind, SelectEntity(g_input).entity))
    => g_result = ReturnNone

\* C9: the import id is the bare id for a project and "<parentId>/<selfId>" for
\* a repository and a variable group, and the import block's target is the
\* resource block's type and label.
C9_ImportIdAndTarget ==
    g_result.outcome = "ok" =>
        LET e == SelectEntity(g_input).entity
            selfId == PyStr(Field(e, "id"))
            parentId == PyStr(Field(Field(e, ParentKey(g_kind)), "id"))
        IN /\ g_result.import.state = "text"
           /\ g_result.import.id =
                 (IF g_kind = "Project" THEN selfId
                  ELSE parentId \o << "/" >> \o selfId)
           /\ g_result.import.to_label = g_result.resource.label
           /\ g_result.import.to_type = g_result.resource.type
           /\ g_result.resource.label # << >>

\* a repository 7 of project 9 was rendered
C9_Witness ==
    /\ g_result.outcome = "ok"
    /\ g_kind = "Repository"
    /\ g_result.import.id = << "9", "/", "7" >>
    /\ g_result.import.to_label = << "m", "y", "_", "p", "r", "o", "j" >>
    /\ g_result.resource.label = << "m", "y", "_", "p", "r", "o", "j" >>

\* C10: a bare object is the entity, a non-empty array gives its first element
\* and nothing else, anything else gives (None, None), exit status 1 and no
\* output.
C10_EntitySelection ==
    Rendered =>
        IF g_input.valid /\ IsDict(g_input.data)
        THEN g_result = RenderEntity(g_kind, g_input.data)
        ELSE IF g_input.valid /\ IsList(g_input.data) /\ Len(g_input.data.a) > 0
        THEN g_result = RenderEntity(g_kind, g_input.data.a[1])
        ELSE /\ g_result = ReturnNone
             /\ g_pc = "exit"
             /\ g_exit = 1
             /\ g_stdout = << >>
             /\ g_files = [terraform |-> NoneBlock, import_file |-> NoneImport]

\* an array of two elements was rendered from its first element; the second,
\* a complete entity with another id, left no trace
C10_Witness ==
    /\ g_pc = "exit"
    /\ g_exit = 0
    /\ g_input.valid
    /\ IsList(g_input.data)
    /\ Len(g_input.data.a) = 2
    /\ g_input.data.a[2] = OtherEntity
    /\ g_result.outcome = "ok"
    /\ g_kind = "Project"
    /\ g_result.import.id = << "7" >>

(***************************************************************************)
(* Further properties of the extractor (specification Spec).               *)
(***************************************************************************)
\* C11: with the access token unset or empty the extractor fails with the
\* configuration error (ValueError) before any request: no request is ever
\* issued, no page fetched, nothing written to the file or to standard output.
C11_NoTokenNoRequest ==
    ~TruthyOpt(azure_devops_ext_pat) =>
        /\ requests = << >>
        /\ pages = << >>
        /\ out_file.state = "untouched"
        /\ stdout = << >>
        /\ pc \in { "start", "raised", "exit" }
        /\ pc # "start" => exc = "ValueError"

\* the token was set but empty; the process ended on the configuration error
C11_Witness ==
    /\ azure_devops_ext_pat = Some(<< >>)
    /\ exc = "ValueError"
    /\ pc = "exit"
    /\ requests = << >>
    /\ stderr # << >>

\* the token the claim expects of a response: x-ms-continuationtoken when
\* present and non-empty, otherwise ContinuationToken
ExpectedToken(headers) ==
    IF headers.xms.some /\ headers.xms.v # << >> THEN headers.xms.v ELSE headers.ct.v
\* how many times "continuationToken=" occurs in a URL
CountParam(u) ==
    Cardinality({ i \in 1..(Len(u) - Len(ContinuationParam) + 1) :
                    SubSeq(u, i, i + Len(ContinuationParam) - 1) = ContinuationParam })

\* C12: the first request uses the base URL; every later request i uses
\* baseUrl + sep + "continuationToken=" + t, sep being '&' when the base URL
\* contains '?' and '?' otherwise, t the token of response i-1 only; no URL
\* holds more than one continuationToken parameter and the base URL never
\* changes.
C12_RequestUrlFromPreviousToken ==
    /\ [](/\ Len(requests) >= 1 => requests[1] = url
          /\ \A i \in 2..Len(requests) :
                /\ requests[i] =
                      url \o << (IF \E j \in 1..Len(url) : url[j] = "?" THEN "&" ELSE "?") >>
                          \o ContinuationParam \o ExpectedToken(pages[i - 1].headers)
                /\ ExpectedToken(pages[i - 1].headers) # << >>
          /\ \A i \in 1..Len(requests) : CountParam(requests[i]) <= 1)
    /\ [][url' = url]_vars

\* the third request, on a base URL with a query string, carries the token of
\* the second response alone, taken from ContinuationToken because
\* x-ms-continuationtoken was empty; the first response's token is gone
C12_Witness ==
    /\ Len(requests) = 3
    /\ url = << "h", "/", "a", "?", "v", "=", "7" >>
    /\ pages[1].headers.xms = Some(Tok1)
    /\ pages[2].headers = [xms |-> Some(<< >>), ct |-> Some(Tok2)]
    /\ requests[2] = url \o << "&" >> \o ContinuationParam \o Tok1
    /\ requests[3] = url \o << "&" >> \o ContinuationParam \o Tok2

====
